---- MODULE Spec2Model ----
(***************************************************************************)
(* Model of src/src/commonHelpers/index.ts: promiseAllRecord (the          *)
(* concurrent keyed transform engine) with isPromise and promisify, and    *)
(* the AES-256-GCM string codec aesEncryptData / aesDecryptData, and       *)
(* bulkAesEncrypt / bulkAesDecrypt, which give the codec to the engine.    *)
(*                                                                         *)
(* JavaScript is single threaded: the body of a call runs to completion    *)
(* (one action), promise reactions run later, one job at a time, from a    *)
(* FIFO microtask queue, and a pending promise is settled by its producer  *)
(* at any later moment, or never.                                          *)
(***************************************************************************)
EXTENDS Integers, Sequences, FiniteSets, TLC

\* Largest number of entries of the input object.
MaxEntries == 3

\* Longest plaintext, in UTF-16 code units.
MaxLen == 2

\* Number of values the random source may return for a nonce.
NumIVs == 2

VARIABLES
    mode,            \* "engine": one invocation of promiseAllRecord;
                     \* "codec": one use of the codec
    object,          \* Object.entries(object): sequence of [key, value]
    functionToCall,  \* [supplied, behaviour]: the optional second argument
    pc,              \* "idle" before the call, "called" once it has returned
    promise,         \* per entry: the computation the entry stands for
    launched,        \* per entry: .then/.catch handlers were attached (l.294-303)
    calls,           \* per entry: how often functionToCall was applied to it
    results,         \* const results = {} (l.288)
    completed,       \* let completed = 0 (l.289)
    outcome,         \* state of the promise promiseAllRecord returns
    raised,          \* what the call raised to its caller, synchronously
    thrown,          \* what the executor threw (l.293, or functionToCall itself)
    microtasks,      \* the FIFO queue of promise reaction jobs
    firstFailed,     \* history: the first entry whose computation failed (0: none)
    observed,        \* history: failed entries, in the order their failure
                     \* reached a promise the engine had attached handlers to
    order,           \* history: entries in the order their results were recorded
    given,           \* history: the object and the key given to bulkAesEncrypt
    plaintext,       \* the string given to the codec
    encKey,          \* the key given with it
    cpc,             \* "start", "encrypted", "decrypted"
    encrypted,       \* what aesEncryptData (or its promisified form) produced
    blob,            \* the string given to aesDecryptData
    blobFrom,        \* history: "encrypt", "flipped" (one bit of one character
                     \* changed), "other" (not a blob of this encryption)
    decKey,          \* the key given to aesDecryptData
    decrypted        \* what aesDecryptData (or its promisified form) produced

engineVars == <<object, functionToCall, pc, promise, launched, calls, results,
                completed, outcome, raised, thrown, microtasks, firstFailed,
                observed, order, given>>

codecVars == <<plaintext, encKey, cpc, encrypted, blob, blobFrom, decKey, decrypted>>

vars == <<mode, engineVars, codecVars>>

----------------------------------------------------------------------------
(* Values *)

None == [none |-> TRUE]

KeyNames == <<"a", "b", "c", "d">>

\* A plain (non-thenable) object, null, and a native promise. `id` tells
\* apart the values of different entries.
PlainValue(i) == [type |-> "object", then |-> "undefined", id |-> i]
NullValue == [type |-> "null", then |-> "undefined", id |-> 0]
PromiseValue(i) == [type |-> "object", then |-> "function", id |-> i]

\* l.268-270: !!obj?.then. null and undefined have no properties, a string
\* has no property `then`.
isPromise(obj) ==
    /\ obj.type \notin {"null", "undefined", "string"}
    /\ obj.then # "undefined"

\* What an entry's own promise settles with.
AwaitedValue(i) == [awaited |-> i]
AwaitedError(i) == [error |-> "rejected", of |-> i]
\* What functionToCall(arg) settles with, or throws.
FnValue(arg) == [transformed |-> arg]
FnError(arg) == [error |-> "transform", of |-> arg]

InvalidInput == [error |-> "Invalid input"]

PromiseStates == {"pending", "fulfilled", "rejected"}
Behaviours == {"throws", "pending", "fulfilled", "rejected"}

Unsettled == [state |-> "none", value |-> None]

SettledWith(state, ok, err) ==
    [state |-> state,
     value |-> CASE state = "fulfilled" -> ok
                 [] state = "rejected" -> err
                 [] OTHER -> None]

----------------------------------------------------------------------------
(* Strings and buffers *)

\* A JavaScript string is a sequence of UTF-16 code units; undefined and
\* null stand for an absent argument.
Str(chars) == [type |-> "string", chars |-> chars]
Undefined == [type |-> "undefined", chars |-> <<>>]
Null == [type |-> "null", chars |-> <<>>]

\* Mutant of Falsy: x == null instead of !x, which lets '' through.
FalsyNullish(x) == x.type \in {"undefined", "null"}

\* !x: undefined, null and the empty string are falsy, an object is not.
Falsy(x) ==
    \/ x.type \in {"undefined", "null"}
    \/ x.type = "string" /\ x.chars = <<>>

IsHighSurrogate(cu) == cu >= 55296 /\ cu <= 56319
IsLowSurrogate(cu) == cu >= 56320 /\ cu <= 57343

\* U+FFFD as UTF-8: what an unpaired surrogate is written as.
ReplacementBytes == <<239, 191, 189>>

Utf8OfCodePoint(cp) ==
    IF cp < 128 THEN <<cp>>
    ELSE IF cp < 2048 THEN <<192 + (cp \div 64), 128 + (cp % 64)>>
    ELSE IF cp < 65536
    THEN <<224 + (cp \div 4096), 128 + ((cp \div 64) % 64), 128 + (cp % 64)>>
    ELSE <<240 + (cp \div 262144), 128 + ((cp \div 4096) % 64),
           128 + ((cp \div 64) % 64), 128 + (cp % 64)>>

\* Buffer.from(string, 'utf8'), which cipher.update(string) applies (l.328)
\* and createCipheriv applies to a string key (l.327, l.357).
RECURSIVE Utf8Encode(_)
Utf8Encode(chars) ==
    IF chars = <<>> THEN <<>>
    ELSE LET c == Head(chars)
         IN  IF IsHighSurrogate(c) /\ Len(chars) >= 2 /\ IsLowSurrogate(chars[2])
             THEN Utf8OfCodePoint(65536 + (c - 55296) * 1024 + (chars[2] - 56320))
                     \o Utf8Encode(Tail(Tail(chars)))
             ELSE IF IsHighSurrogate(c) \/ IsLowSurrogate(c)
             THEN ReplacementBytes \o Utf8Encode(Tail(chars))
             ELSE Utf8OfCodePoint(c) \o Utf8Encode(Tail(chars))

IsContinuation(bytes, k) == k <= Len(bytes) /\ bytes[k] >= 128 /\ bytes[k] <= 191

\* buffer.toString() (l.359): UTF-8 to code units; a byte that starts no
\* well-formed sequence becomes U+FFFD.
RECURSIVE Utf8Decode(_)
Utf8Decode(bytes) ==
    IF bytes = <<>> THEN <<>>
    ELSE LET b == bytes[1]
             rest(n) == Utf8Decode(SubSeq(bytes, n + 1, Len(bytes)))
         IN  IF b < 128 THEN <<b>> \o rest(1)
             ELSE IF b >= 194 /\ b <= 223 /\ IsContinuation(bytes, 2)
             THEN <<(b - 192) * 64 + (bytes[2] - 128)>> \o rest(2)
             ELSE IF /\ b >= 224 /\ b <= 239
                     /\ IsContinuation(bytes, 2) /\ IsContinuation(bytes, 3)
                     /\ (b = 224 => bytes[2] >= 160)
                     /\ (b = 237 => bytes[2] <= 159)
             THEN <<(b - 224) * 4096 + (bytes[2] - 128) * 64 + (bytes[3] - 128)>>
                     \o rest(3)
             ELSE IF /\ b >= 240 /\ b <= 244
                     /\ IsContinuation(bytes, 2) /\ IsContinuation(bytes, 3)
                     /\ IsContinuation(bytes, 4)
                     /\ (b = 240 => bytes[2] >= 144)
                     /\ (b = 244 => bytes[2] <= 143)
             THEN LET cp == (b - 240) * 262144 + (bytes[2] - 128) * 4096
                              + (bytes[3] - 128) * 64 + (bytes[4] - 128) - 65536
                  IN  <<55296 + (cp \div 1024), 56320 + (cp % 1024)>> \o rest(4)
             ELSE <<65533>> \o rest(1)

\* The URL-safe base64 alphabet: A-Z a-z 0-9 - _
Base64urlChar(v) ==
    IF v < 26 THEN 65 + v
    ELSE IF v < 52 THEN 97 + (v - 26)
    ELSE IF v < 62 THEN 48 + (v - 52)
    ELSE IF v = 62 THEN 45
    ELSE 95

\* The 6-bit value of a character, -1 for a character outside the alphabet.
Base64urlValue(c) ==
    IF c >= 65 /\ c <= 90 THEN c - 65
    ELSE IF c >= 97 /\ c <= 122 THEN c - 97 + 26
    ELSE IF c >= 48 /\ c <= 57 THEN c - 48 + 52
    ELSE IF c = 45 THEN 62
    ELSE IF c = 95 THEN 63
    ELSE -1

\* buffer.toString('base64url') (l.328-330): no padding.
RECURSIVE Base64urlEncode(_)
Base64urlEncode(bytes) ==
    IF bytes = <<>> THEN <<>>
    ELSE IF Len(bytes) = 1
    THEN <<Base64urlChar(bytes[1] \div 4), Base64urlChar((bytes[1] % 4) * 16)>>
    ELSE IF Len(bytes) = 2
    THEN <<Base64urlChar(bytes[1] \div 4),
           Base64urlChar((bytes[1] % 4) * 16 + (bytes[2] \div 16)),
           Base64urlChar((bytes[2] % 16) * 4)>>
    ELSE <<Base64urlChar(bytes[1] \div 4),
           Base64urlChar((bytes[1] % 4) * 16 + (bytes[2] \div 16)),
           Base64urlChar((bytes[2] % 16) * 4 + (bytes[3] \div 64)),
           Base64urlChar(bytes[3] % 64)>>
            \o Base64urlEncode(SubSeq(bytes, 4, Len(bytes)))

RECURSIVE SextetsToBytes(_)
SextetsToBytes(v) ==
    IF Len(v) < 2 THEN <<>>
    ELSE IF Len(v) = 2 THEN <<v[1] * 4 + (v[2] \div 16)>>
    ELSE IF Len(v) = 3
    THEN <<v[1] * 4 + (v[2] \div 16), (v[2] % 16) * 16 + (v[3] \div 4)>>
    ELSE <<v[1] * 4 + (v[2] \div 16), (v[2] % 16) * 16 + (v[3] \div 4),
           (v[3] % 4) * 64 + v[4]>>
            \o SextetsToBytes(SubSeq(v, 5, Len(v)))

\* Buffer.from(string, 'base64url') (l.356): characters outside the alphabet
\* are skipped, the unused low bits of the last character are dropped.
Base64urlDecode(chars) ==
    LET valid == SelectSeq(chars, LAMBDA c : Base64urlValue(c) >= 0)
    IN  SextetsToBytes([k \in 1..Len(valid) |-> Base64urlValue(valid[k])])

\* buffer.subarray(start, end): negative indices count from the end, both
\* are clamped to the buffer.
Subarray(buf, start, end) ==
    LET clamp(x) == IF x < 0 THEN (IF Len(buf) + x < 0 THEN 0 ELSE Len(buf) + x)
                    ELSE IF x > Len(buf) THEN Len(buf) ELSE x
    IN  SubSeq(buf, clamp(start) + 1, clamp(end))

----------------------------------------------------------------------------
(* Promises: new Promise, resolve, reject *)

Pending == [status |-> "pending", value |-> None]

\* resolve / reject of a promise take effect only while it is pending.
Resolve(out, v) ==
    IF out.status = "pending" THEN [status |-> "resolved", value |-> v] ELSE out

\* Mutant of Reject: a later rejection replaces the outcome.
RejectOverwrites(out, e) == [status |-> "rejected", value |-> e]

Reject(out, e) ==
    IF out.status = "pending" THEN [status |-> "rejected", value |-> e] ELSE out

\* Mutant of NewPromise: the exception of the executor leaves the
\* constructor and reaches the caller.
NewPromiseRethrows(err) == [outcome |-> Pending, raised |-> err]

\* l.287: new Promise(executor). An exception of the executor rejects the
\* new promise; the constructor itself returns normally.
NewPromise(err) ==
    [outcome |-> IF err = None THEN Pending ELSE Reject(Pending, err),
     raised |-> None]

----------------------------------------------------------------------------
(* The codec, l.312-362 *)

\* 'aes-256-gcm': a 256-bit key; the nonce of l.326; the tag of l.358.
KeyLength == 32
IvLength == 12
TagLength == 16

RECURSIVE SumBytes(_)
SumBytes(bytes) == IF bytes = <<>> THEN 0 ELSE Head(bytes) + SumBytes(Tail(bytes))

RECURSIVE BitXor(_, _)
BitXor(a, b) ==
    IF a = 0 THEN b
    ELSE IF b = 0 THEN a
    ELSE ((a + b) % 2) + 2 * BitXor(a \div 2, b \div 2)

\* The cipher of node's crypto module is modelled by its contract. GCM is
\* a stream cipher: the data is XORed with a keystream that the key and the
\* nonce determine, so the ciphertext is as long as the plaintext ...
KeystreamByte(kb, iv, k) ==
    (kb[((k - 1) % Len(kb)) + 1] + iv[((k - 1) % Len(iv)) + 1] + k) % 256

GcmCrypt(kb, iv, data) ==
    [k \in 1..Len(data) |-> BitXor(data[k], KeystreamByte(kb, iv, k))]

\* ... and the tag binds key, nonce and ciphertext: a change of any of them
\* changes the tag (an ideal MAC; for AES-GCM a forgery has probability
\* 2^-128).
GcmTag(kb, iv, ct) ==
    LET sk == SumBytes(kb) % 256
        si == SumBytes(iv) % 256
        sc == SumBytes(ct) % 256
    IN  <<sk, si, sc, Len(ct) % 256>>
            \o [k \in 1..(TagLength - 4) |-> (sk + si + sc + k) % 256]

Returned(v, c) == [kind |-> "returned", value |-> v, cipher |-> c]
Raised(e, c) == [kind |-> "raised", value |-> [error |-> e], cipher |-> c]

\* l.324-331, with aesIV the value randomBytes(12) returns. cipher.update
\* takes a string or a buffer and throws a TypeError for another object.
aesEncryptData(string, key, aesIV) ==
    IF Falsy(string) \/ Falsy(key) THEN Returned(Null, FALSE)
    ELSE LET kb == Utf8Encode(key.chars)
         IN  IF Len(kb) # KeyLength THEN Raised("ERR_CRYPTO_INVALID_KEYLEN", TRUE)
             ELSE IF string.type # "string"
             THEN Raised("ERR_INVALID_ARG_TYPE", TRUE)
             ELSE LET ct == GcmCrypt(kb, aesIV, Utf8Encode(string.chars))
                  IN  Returned(Str(Base64urlEncode(aesIV \o ct \o GcmTag(kb, aesIV, ct))),
                               TRUE)

\* The lengths setAuthTag accepts for GCM when no authTagLength is set.
TagLengths == {4, 8, 12, 13, 14, 15, 16}

\* l.357: buffer.subarray(0, 12)
NonceOf(buffer) == Subarray(buffer, 0, IvLength)

\* l.358: buffer.subarray(-16)
TagOf(buffer) == Subarray(buffer, 0 - TagLength, Len(buffer))

\* Mutant of CiphertextOf: the tag is not cut off the ciphertext.
CiphertextWithTag(buffer) == Subarray(buffer, IvLength, Len(buffer))

\* l.359: buffer.subarray(12, -16)
CiphertextOf(buffer) == Subarray(buffer, IvLength, 0 - TagLength)

\* Mutant of Authentic: cipher.final() is never called, nothing is verified.
AuthenticUnchecked(kb, iv, ct, tag) == TRUE

\* l.358-359: cipher.setAuthTag(tag) and cipher.final(), which throws unless
\* the tag is the one of this key, nonce and ciphertext.
Authentic(kb, iv, ct, tag) == tag = SubSeq(GcmTag(kb, iv, ct), 1, Len(tag))

\* l.354-360. Buffer.from throws a TypeError for an object that is neither
\* array-like nor convertible to a primitive.
aesDecryptData(encryptedString, key) ==
    IF Falsy(encryptedString) \/ Falsy(key) THEN Returned(Null, FALSE)
    ELSE IF encryptedString.type # "string"
    THEN Raised("ERR_INVALID_ARG_TYPE", FALSE)
    ELSE LET buffer == Base64urlDecode(encryptedString.chars)
             kb == Utf8Encode(key.chars)
             iv == NonceOf(buffer)
             tag == TagOf(buffer)
             ct == CiphertextOf(buffer)
         IN  IF Len(kb) # KeyLength THEN Raised("ERR_CRYPTO_INVALID_KEYLEN", TRUE)
             ELSE IF iv = <<>> THEN Raised("ERR_CRYPTO_INVALID_IV", TRUE)
             ELSE IF Len(tag) \notin TagLengths
             THEN Raised("ERR_CRYPTO_INVALID_AUTH_TAG", TRUE)
             ELSE IF ~Authentic(kb, iv, ct, tag)
             THEN Raised("unable to authenticate data", TRUE)
             ELSE Returned(Str(Utf8Decode(GcmCrypt(kb, iv, ct))), TRUE)

\* l.312-318: promisify(fn)(...args). The call of fn is inside the executor
\* of a new promise: what fn returns resolves it, what fn throws rejects it.
promisify(response) ==
    LET p == NewPromise(IF response.kind = "raised" THEN response.value ELSE None)
    IN  [kind |-> "promise",
         outcome |-> IF response.kind = "raised" THEN p.outcome
                     ELSE Resolve(p.outcome, response.value),
         raised |-> p.raised,
         cipher |-> response.cipher]

----------------------------------------------------------------------------
(* promiseAllRecord: launching the entries, l.287-304 *)

\* Mutant of ReactionJobs: the handlers are registered twice, so each
\* settlement queues its reaction twice.
ReactionJobsTwice(i, state) ==
    CASE state = "fulfilled" -> <<[job |-> "then", entry |-> i],
                                  [job |-> "then", entry |-> i]>>
      [] state = "rejected" -> <<[job |-> "thenPass", entry |-> i],
                                 [job |-> "thenPass", entry |-> i]>>
      [] OTHER -> <<>>

\* The reaction job queued for `.then(onFulfilled)` (l.295) when the promise
\* it was called on is, or becomes, settled. A rejection has no handler in
\* .then: it passes through a job of its own to the promise .then returned,
\* and only then reaches .catch (l.303).
ReactionJobs(i, state) ==
    CASE state = "fulfilled" -> <<[job |-> "then", entry |-> i]>>
      [] state = "rejected" -> <<[job |-> "thenPass", entry |-> i]>>
      [] OTHER -> <<>>

\* functionToCall is the closure of bulkAesEncrypt (l.346) or of
\* bulkAesDecrypt (l.369) over the key, not a transform of the caller's.
IsCodecClosure == "codec" \in DOMAIN functionToCall

\* The promise a promisified function returns is settled when it is returned.
SettledPromise(r) ==
    [beh |-> IF r.outcome.status = "resolved" THEN "fulfilled" ELSE "rejected",
     ok |-> r.outcome.value,
     err |-> r.outcome.value]

\* Mutant of Transform: the closure of l.346 / l.369 does not pass the key on,
\* so the codec finds it absent.
TransformWithoutKey(st, i) ==
    IF IsCodecClosure
    THEN SettledPromise(promisify(
            IF functionToCall.codec = "encrypt"
            THEN aesEncryptData(object[i].value, Undefined, st.random[i])
            ELSE aesDecryptData(object[i].value, Undefined)))
    ELSE [beh |-> functionToCall.behaviour[i],
          ok |-> FnValue(object[i].value),
          err |-> FnError(object[i].value)]

\* What the call functionToCall(promiseOrValue) does for entry i (l.294). A
\* transform of the caller's throws, or returns a promise that is pending,
\* fulfilled or rejected. The closures of l.346 and l.369 return the promise
\* of promisifiedAesEncryptData / promisifiedAesDecryptData, which is settled
\* when it is returned; st.random[i] is what randomBytes returns in that call.
Transform(st, i) ==
    IF IsCodecClosure
    THEN SettledPromise(promisify(
            IF functionToCall.codec = "encrypt"
            THEN aesEncryptData(object[i].value, functionToCall.key, st.random[i])
            ELSE aesDecryptData(object[i].value, functionToCall.key)))
    ELSE [beh |-> functionToCall.behaviour[i],
          ok |-> FnValue(object[i].value),
          err |-> FnError(object[i].value)]

\* l.294: the call of functionToCall and what it leaves behind: an exception
\* that ends the executor, or the promise it returned.
Applied(st, i, t) ==
    [st EXCEPT
        !.calls[i] = @ + 1,
        !.thrown = IF t.beh = "throws" THEN t.err ELSE @,
        !.promise[i] = IF t.beh = "throws" THEN @
                       ELSE SettledWith(t.beh, t.ok, t.err),
        !.firstFailed = IF @ = 0 /\ t.beh \in {"throws", "rejected"}
                        THEN i ELSE @]

\* Mutant of Computation: the transform is applied to every value, pending
\* or not.
ComputationAlways(st, i) == Applied(st, i, Transform(st, i))

\* l.294: isPromise(promiseOrValue) ? promiseOrValue : functionToCall?.(promiseOrValue)
Computation(st, i) ==
    IF isPromise(object[i].value) THEN st ELSE Applied(st, i, Transform(st, i))

\* l.294-303: Promise.resolve(computation).then(...).catch(...)
Attach(st, i) ==
    LET s == st.promise[i].state
    IN  [st EXCEPT
            !.launched[i] = TRUE,
            !.microtasks = @ \o ReactionJobs(i, s),
            !.observed = IF s = "rejected"
                         THEN Append(@, [entry |-> i, when |-> "launch"])
                         ELSE @]

\* l.294: an exception of functionToCall leaves the callback before
\* Promise.resolve(...).then(...).catch(...) is reached.
AttachUnlessThrown(c, i) == IF c.thrown # None THEN c ELSE Attach(c, i)

\* Mutant of LaunchEntry: the check of l.293 is missing; functionToCall?.()
\* of a missing transform is undefined, which Promise.resolve fulfils.
LaunchEntryUnchecked(st, i) ==
    IF ~isPromise(object[i].value) /\ ~functionToCall.supplied
    THEN Attach([st EXCEPT !.promise[i] =
                    [state |-> "fulfilled", value |-> [undefined |-> TRUE]]], i)
    ELSE AttachUnlessThrown(Computation(st, i), i)

\* l.292-304: the callback of entries.forEach for entry i
LaunchEntry(st, i) ==
    IF ~isPromise(object[i].value) /\ ~functionToCall.supplied
    THEN [st EXCEPT !.thrown = InvalidInput]
    ELSE AttachUnlessThrown(Computation(st, i), i)

\* Mutant of ForEach: the entries are taken one after the other and the
\* loop ends at the first entry found rejected.
RECURSIVE ForEachUntilFailure(_, _)
ForEachUntilFailure(st, i) ==
    IF i > Len(object) \/ st.thrown # None \/ st.observed # <<>>
    THEN st
    ELSE ForEachUntilFailure(LaunchEntry(st, i), i + 1)

\* l.292: entries.forEach(...), left by the first exception
RECURSIVE ForEach(_, _)
ForEach(st, i) ==
    IF i > Len(object) \/ st.thrown # None
    THEN st
    ELSE ForEach(LaunchEntry(st, i), i + 1)

\* l.287-305: new Promise(executor) returns when the executor has run.
Executed(st) ==
    LET p == NewPromise(st.thrown)
    IN  /\ promise' = st.promise
        /\ launched' = st.launched
        /\ calls' = st.calls
        /\ microtasks' = st.microtasks
        /\ thrown' = st.thrown
        /\ firstFailed' = st.firstFailed
        /\ observed' = st.observed
        /\ outcome' = p.outcome
        /\ raised' = p.raised
        /\ pc' = "called"
        /\ UNCHANGED <<mode, object, functionToCall, results, completed, order,
                       given>>
        /\ UNCHANGED codecVars

\* l.283-306: promiseAllRecord(object, functionToCall) from its call to its
\* return; random: the values randomBytes returns inside functionToCall.
promiseAllRecord(random) ==
    Executed(ForEach([promise |-> promise, launched |-> launched,
                      calls |-> calls, microtasks |-> microtasks,
                      thrown |-> None, firstFailed |-> firstFailed,
                      observed |-> observed, random |-> random], 1))

\* The call promiseAllRecord(object, functionToCall) with a transform of the
\* caller's, or none.
Call ==
    /\ mode = "engine"
    /\ pc = "idle"
    /\ ~IsCodecClosure
    /\ promiseAllRecord(<<>>)

\* l.345-348: bulkAesEncrypt(object, key)
bulkAesEncrypt(random) ==
    /\ mode = "engine"
    /\ pc = "idle"
    /\ IsCodecClosure
    /\ functionToCall.codec = "encrypt"
    /\ promiseAllRecord(random)

\* l.368-371: bulkAesDecrypt(object, key)
bulkAesDecrypt ==
    /\ mode = "engine"
    /\ pc = "idle"
    /\ IsCodecClosure
    /\ functionToCall.codec = "decrypt"
    /\ promiseAllRecord(<<>>)

\* The producer of a pending computation settles it.
Settle(i, how) ==
    /\ mode = "engine"
    /\ pc = "called"
    /\ promise[i].state = "pending"
    /\ LET v == object[i].value
       IN  promise' = [promise EXCEPT ![i] =
               IF isPromise(v)
               THEN SettledWith(how, AwaitedValue(i), AwaitedError(i))
               ELSE SettledWith(how, FnValue(v), FnError(v))]
    /\ microtasks' = IF launched[i] THEN microtasks \o ReactionJobs(i, how)
                     ELSE microtasks
    /\ firstFailed' = IF firstFailed = 0 /\ how = "rejected" THEN i ELSE firstFailed
    /\ observed' = IF launched[i] /\ how = "rejected"
                   THEN Append(observed, [entry |-> i, when |-> "later"])
                   ELSE observed
    /\ UNCHANGED <<mode, object, functionToCall, pc, launched, calls, results,
                   completed, outcome, raised, thrown, order, given>>
    /\ UNCHANGED codecVars

\* Mutant of AllCompleted: an off-by-one in the comparison.
AllCompletedOffByOne(n) == n = Len(object) - 1

\* l.299: completed === entries.length
AllCompleted(n) == n = Len(object)

\* Mutant of ThenJob: the callback closes over a loop variable shared by
\* all entries, so every result is stored under the last key.
ThenJobLastKey(i, rest) ==
    LET last == object[Len(object)].key
        res == [k \in DOMAIN results \cup {last} |->
                   IF k = last THEN promise[i].value ELSE results[k]]
        n == completed + 1
    IN  /\ results' = res
        /\ completed' = n
        /\ outcome' = IF n = Len(object) THEN Resolve(outcome, res) ELSE outcome
        /\ microtasks' = rest
        /\ order' = Append(order, i)

\* l.295-302: the onFulfilled callback of entry i
ThenJob(i, rest) ==
    LET key == object[i].key
        res == [k \in DOMAIN results \cup {key} |->
                   IF k = key THEN promise[i].value ELSE results[k]]
        n == completed + 1
    IN  /\ results' = res
        /\ completed' = n
        /\ outcome' = IF AllCompleted(n) THEN Resolve(outcome, res) ELSE outcome
        /\ microtasks' = rest
        /\ order' = Append(order, i)

\* A rejection finds no handler in .then (l.295): the promise .then returned
\* is rejected with the same reason, which queues the reaction of .catch.
ThenPassJob(i, rest) ==
    /\ microtasks' = rest \o <<[job |-> "catch", entry |-> i]>>
    /\ UNCHANGED <<results, completed, outcome, order>>

\* Mutant of CatchJob: the error is wrapped before it is passed on.
CatchJobWrapped(i, rest) ==
    /\ outcome' = Reject(outcome, [error |-> "wrapped", cause |-> promise[i].value])
    /\ microtasks' = rest
    /\ UNCHANGED <<results, completed, order>>

\* l.303: .catch((err) => reject(err))
CatchJob(i, rest) ==
    /\ outcome' = Reject(outcome, promise[i].value)
    /\ microtasks' = rest
    /\ UNCHANGED <<results, completed, order>>

\* The job the event loop runs next: the head of the FIFO queue.
NextJob(queue) == Head(queue)

RestJobs(queue) == Tail(queue)

RunMicrotask ==
    /\ mode = "engine"
    /\ pc = "called"
    /\ microtasks # <<>>
    /\ LET j == NextJob(microtasks)
           rest == RestJobs(microtasks)
       IN  CASE j.job = "then" -> ThenJob(j.entry, rest)
             [] j.job = "thenPass" -> ThenPassJob(j.entry, rest)
             [] OTHER -> CatchJob(j.entry, rest)
    /\ UNCHANGED <<mode, object, functionToCall, pc, promise, launched, calls,
                   raised, thrown, firstFailed, observed, given>>
    /\ UNCHANGED codecVars

----------------------------------------------------------------------------
(* Inputs *)

EntryValues(i) == {PlainValue(i), NullValue, PromiseValue(i)}

InitialPromise(v, i) ==
    IF isPromise(v)
    THEN {SettledWith(s, AwaitedValue(i), AwaitedError(i)) : s \in PromiseStates}
    ELSE {Unsettled}

\* The codec is not in use.
CodecIdle ==
    /\ plaintext = Undefined
    /\ encKey = Undefined
    /\ cpc = "unused"
    /\ encrypted = None
    /\ blob = Undefined
    /\ blobFrom = "none"
    /\ decKey = Undefined
    /\ decrypted = None

Init ==
    /\ mode = "engine"
    /\ CodecIdle
    /\ pc = "idle"
    /\ \E n \in 0..MaxEntries :
         /\ \E vals \in [1..n -> UNION {EntryValues(i) : i \in 1..n}] :
              /\ \A i \in 1..n : vals[i] \in EntryValues(i)
              /\ object = [i \in 1..n |-> [key |-> KeyNames[i], value |-> vals[i]]]
         /\ promise \in [1..n -> {Unsettled} \cup
                {SettledWith(s, AwaitedValue(i), AwaitedError(i)) :
                    s \in PromiseStates, i \in 1..n}]
         /\ \A i \in 1..n : promise[i] \in InitialPromise(object[i].value, i)
         /\ \E supplied \in BOOLEAN :
              \E beh \in [1..n -> Behaviours] :
                /\ \A i \in 1..n :
                     (isPromise(object[i].value) \/ ~supplied) => beh[i] = "pending"
                /\ functionToCall = [supplied |-> supplied, behaviour |-> beh]
         /\ launched = [i \in 1..n |-> FALSE]
         /\ calls = [i \in 1..n |-> 0]
         /\ LET failed == {i \in 1..n : promise[i].state = "rejected"}
            IN  firstFailed \in (IF failed = {} THEN {0} ELSE failed)
    /\ results = [k \in {} |-> None]
    /\ completed = 0
    /\ outcome = Pending
    /\ raised = None
    /\ thrown = None
    /\ microtasks = <<>>
    /\ observed = <<>>
    /\ order = <<>>
    /\ given = None

Next ==
    \/ Call
    \/ \E i \in 1..Len(object) : \E how \in {"fulfilled", "rejected"} : Settle(i, how)
    \/ RunMicrotask

Spec == Init /\ [][Next]_vars

----------------------------------------------------------------------------
(* Uses of the codec *)

\* 'A', e acute (2 bytes of UTF-8), the euro sign (3 bytes), and the two
\* halves of U+1F600 (together 4 bytes, alone ill-formed).
CodeUnits == {65, 233, 8364, 55357, 56832}

Strings == UNION {[1..n -> CodeUnits] : n \in 0..MaxLen}

Repeat(c, n) == [k \in 1..n |-> c]

\* Two keys of 32 bytes, one of 16, one of 32 characters that are 33 bytes,
\* the empty string and no key.
KeyA == Str(Repeat(97, 32))
KeyB == Str(Repeat(98, 32))
ShortKey == Str(Repeat(97, 16))
WideKey == Str(Repeat(97, 31) \o <<233>>)
Keys == {KeyA, KeyB, ShortKey, WideKey, Str(<<>>), Undefined}

\* randomBytes(12), l.326
IVs == {Repeat(7 * x, IvLength) : x \in 0..(NumIVs - 1)}

\* Strings given to aesDecryptData that no encryption produced: the empty
\* string, nothing, two characters, and 28 zero bytes.
OtherBlobs == {Str(<<>>), Undefined, Str(<<81, 81>>),
               Str(Base64urlEncode(Repeat(0, IvLength + TagLength)))}

\* The engine is not in use.
EngineIdle ==
    /\ object = <<>>
    /\ functionToCall = [supplied |-> FALSE, behaviour |-> <<>>]
    /\ pc = "unused"
    /\ promise = <<>>
    /\ launched = <<>>
    /\ calls = <<>>
    /\ results = [k \in {} |-> None]
    /\ completed = 0
    /\ outcome = Pending
    /\ raised = None
    /\ thrown = None
    /\ microtasks = <<>>
    /\ firstFailed = 0
    /\ observed = <<>>
    /\ order = <<>>
    /\ given = None

InitCodec ==
    /\ mode = "codec"
    /\ EngineIdle
    /\ plaintext \in {Str(chars) : chars \in Strings} \cup {Undefined}
    /\ encKey \in Keys
    /\ cpc = "start"
    /\ encrypted = None
    /\ blob = Undefined
    /\ blobFrom = "none"
    /\ decKey = Undefined
    /\ decrypted = None

\* What a caller holds after `await`, or after the plain call: the value,
\* or nothing when the call failed.
Delivered(r) ==
    CASE r.kind = "returned" -> r.value
      [] r.kind = "promise" /\ r.outcome.status = "resolved" -> r.outcome.value
      [] OTHER -> Undefined

\* aesEncryptData(plaintext, encKey)
Encrypt(aesIV) ==
    /\ mode = "codec"
    /\ cpc = "start"
    /\ encrypted' = aesEncryptData(plaintext, encKey, aesIV)
    /\ blob' = Delivered(encrypted')
    /\ blobFrom' = "encrypt"
    /\ cpc' = "encrypted"
    /\ UNCHANGED <<mode, engineVars, plaintext, encKey, decKey, decrypted>>

\* l.338: promisifiedAesEncryptData(plaintext, encKey)
PromisifiedEncrypt(aesIV) ==
    /\ mode = "codec"
    /\ cpc = "start"
    /\ encrypted' = promisify(aesEncryptData(plaintext, encKey, aesIV))
    /\ blob' = Delivered(encrypted')
    /\ blobFrom' = "encrypt"
    /\ cpc' = "encrypted"
    /\ UNCHANGED <<mode, engineVars, plaintext, encKey, decKey, decrypted>>

\* The bits of a character's 6-bit value that are flipped: the lowest, which
\* in the last character of a blob may be one of the unused bits, and the
\* highest.
FlipBits == {0, 5}

\* One bit of the 6-bit value of a character.
FlipBit(v, bit) ==
    LET w == CASE bit = 0 -> 1 [] bit = 1 -> 2 [] bit = 2 -> 4
               [] bit = 3 -> 8 [] bit = 4 -> 16 [] OTHER -> 32
    IN  IF (v \div w) % 2 = 1 THEN v - w ELSE v + w

\* Somebody changes one bit of one character of the blob.
Tamper(pos, bit) ==
    /\ mode = "codec"
    /\ cpc = "encrypted"
    /\ blobFrom = "encrypt"
    /\ encrypted.kind = "returned"
    /\ ~Falsy(blob)
    /\ pos \in 1..Len(blob.chars)
    /\ blob' = Str([blob.chars EXCEPT ![pos] =
                      Base64urlChar(FlipBit(Base64urlValue(@), bit))])
    /\ blobFrom' = "flipped"
    /\ UNCHANGED <<mode, engineVars, plaintext, encKey, cpc, encrypted, decKey,
                   decrypted>>

\* The caller decrypts something else than what the encryption returned.
Replace(b) ==
    /\ mode = "codec"
    /\ cpc = "encrypted"
    /\ blobFrom = "encrypt"
    /\ encrypted.kind = "returned"
    /\ blob' = b
    /\ blobFrom' = "other"
    /\ UNCHANGED <<mode, engineVars, plaintext, encKey, cpc, encrypted, decKey,
                   decrypted>>

\* aesDecryptData(blob, k)
Decrypt(k) ==
    /\ mode = "codec"
    /\ cpc = "encrypted"
    /\ encrypted.kind # "promise"
    /\ decKey' = k
    /\ decrypted' = aesDecryptData(blob, k)
    /\ cpc' = "decrypted"
    /\ UNCHANGED <<mode, engineVars, plaintext, encKey, encrypted, blob, blobFrom>>

\* l.362: promisifiedAesDecryptData(blob, k)
PromisifiedDecrypt(k) ==
    /\ mode = "codec"
    /\ cpc = "encrypted"
    /\ encrypted.kind = "promise"
    /\ decKey' = k
    /\ decrypted' = promisify(aesDecryptData(blob, k))
    /\ cpc' = "decrypted"
    /\ UNCHANGED <<mode, engineVars, plaintext, encKey, encrypted, blob, blobFrom>>

NextCodec ==
    \/ \E aesIV \in IVs : Encrypt(aesIV)
    \/ \E aesIV \in IVs : PromisifiedEncrypt(aesIV)
    \/ \E pos \in 1..64 : \E bit \in FlipBits : Tamper(pos, bit)
    \/ \E b \in OtherBlobs : Replace(b)
    \/ \E k \in Keys : Decrypt(k)
    \/ \E k \in Keys : PromisifiedDecrypt(k)

SpecCodec == InitCodec /\ [][NextCodec]_vars

\* The calls of either component, on inputs as they are given.
NextCalls ==
    \/ Next
    \/ \E aesIV \in IVs : Encrypt(aesIV)
    \/ \E aesIV \in IVs : PromisifiedEncrypt(aesIV)
    \/ \E k \in Keys : Decrypt(k)
    \/ \E k \in Keys : PromisifiedDecrypt(k)

InitCalls == Init \/ InitCodec

SpecCalls == InitCalls /\ [][NextCalls]_vars

----------------------------------------------------------------------------
(* Uses of the bulk wrappers, l.345-371 *)

\* The values of the fields of the object given to bulkAesEncrypt: the empty
\* string, 'A', an unpaired surrogate, and a promise.
FieldValues(i) == {Str(<<>>), Str(<<65>>), Str(<<55357>>), PromiseValue(i)}

\* The keys given to bulkAesEncrypt: one of 32 bytes and one of 16.
EncryptKeys == {KeyA, ShortKey}

\* The keys given to bulkAesDecrypt: the same key of 32 bytes and another.
DecryptKeys == {KeyA, KeyB}

\* l.346: const functionToCall = (value) => promisifiedAesEncryptData(value, key)
EncryptClosure(key) == [supplied |-> TRUE, codec |-> "encrypt", key |-> key]

\* l.369: const functionToCall = (value) => promisifiedAesDecryptData(value, key)
DecryptClosure(key) == [supplied |-> TRUE, codec |-> "decrypt", key |-> key]

InitBulk ==
    /\ mode = "engine"
    /\ CodecIdle
    /\ pc = "idle"
    /\ \E n \in 0..MaxEntries :
         /\ \E vals \in [1..n -> UNION {FieldValues(i) : i \in 1..n}] :
              /\ \A i \in 1..n : vals[i] \in FieldValues(i)
              /\ object = [i \in 1..n |-> [key |-> KeyNames[i], value |-> vals[i]]]
         /\ promise \in [1..n -> {Unsettled} \cup
                {SettledWith(s, AwaitedValue(i), AwaitedError(i)) :
                    s \in PromiseStates, i \in 1..n}]
         /\ \A i \in 1..n : promise[i] \in InitialPromise(object[i].value, i)
         /\ launched = [i \in 1..n |-> FALSE]
         /\ calls = [i \in 1..n |-> 0]
         /\ LET failed == {i \in 1..n : promise[i].state = "rejected"}
            IN  firstFailed \in (IF failed = {} THEN {0} ELSE failed)
    /\ \E key \in EncryptKeys :
         /\ functionToCall = EncryptClosure(key)
         /\ given = [object |-> object, key |-> key]
    /\ results = [k \in {} |-> None]
    /\ completed = 0
    /\ outcome = Pending
    /\ raised = None
    /\ thrown = None
    /\ microtasks = <<>>
    /\ observed = <<>>
    /\ order = <<>>

\* bulkAesDecrypt(await bulkAesEncrypt(object, key), k): the caller awaits the
\* mapping of an object of strings and gives it to bulkAesDecrypt with a key.
\* Object.entries lists the fields in the order they were written (l.296).
PassOn(k) ==
    /\ mode = "engine"
    /\ pc = "called"
    /\ IsCodecClosure
    /\ functionToCall.codec = "encrypt"
    /\ outcome.status = "resolved"
    /\ \A i \in 1..Len(object) : ~isPromise(object[i].value)
    /\ object' = [j \in 1..Len(order) |->
                     [key |-> object[order[j]].key,
                      value |-> outcome.value[object[order[j]].key]]]
    /\ functionToCall' = DecryptClosure(k)
    /\ pc' = "idle"
    /\ promise' = [j \in 1..Len(order) |-> Unsettled]
    /\ launched' = [j \in 1..Len(order) |-> FALSE]
    /\ calls' = [j \in 1..Len(order) |-> 0]
    /\ results' = [x \in {} |-> None]
    /\ completed' = 0
    /\ outcome' = Pending
    /\ raised' = None
    /\ thrown' = None
    /\ microtasks' = <<>>
    /\ firstFailed' = 0
    /\ observed' = <<>>
    /\ order' = <<>>
    /\ UNCHANGED <<mode, given>>
    /\ UNCHANGED codecVars

NextBulk ==
    \/ \E random \in [1..Len(object) -> IVs] : bulkAesEncrypt(random)
    \/ \E i \in 1..Len(object) : \E how \in {"fulfilled", "rejected"} : Settle(i, how)
    \/ RunMicrotask
    \/ \E k \in DecryptKeys : PassOn(k)
    \/ bulkAesDecrypt

SpecBulk == InitBulk /\ [][NextBulk]_vars

----------------------------------------------------------------------------
(* Properties of promiseAllRecord *)

Entries == 1..Len(object)

KeysOf == {object[i].key : i \in Entries}

\* What the computation of entry i settles with when it succeeds / fails.
ExpectedResult(i) ==
    IF isPromise(object[i].value) THEN AwaitedValue(i) ELSE FnValue(object[i].value)

FailureOf(i) ==
    IF isPromise(object[i].value) THEN AwaitedError(i) ELSE FnError(object[i].value)

\* Launching entry j leaves the forEach loop with an exception.
ThrowsAt(j) ==
    /\ ~isPromise(object[j].value)
    /\ ~functionToCall.supplied \/ functionToCall.behaviour[j] = "throws"

\* The forEach loop gets as far as entry i.
Reached(i) == \A j \in 1..(i - 1) : ~ThrowsAt(j)

\* C1: called with an empty input mapping, promiseAllRecord resolves with an
\* empty mapping: once the call has returned, the promise is resolved with {}
\* or some step that can still resolve it remains to be taken.
C1_EmptyInputResolves ==
    (mode = "engine" /\ pc = "called" /\ Len(object) = 0) =>
        \/ outcome.status = "resolved" /\ DOMAIN outcome.value = {}
        \/ ENABLED Next

C3_NoPartialSuccess ==
    (mode = "engine" /\ outcome.status = "resolved") =>
        /\ \A i \in Entries : launched[i] /\ promise[i].state = "fulfilled"
        /\ completed = Len(object)

\* Witness of C3: one entry's result is recorded, another entry has failed
\* and a third is outstanding (and the aggregate is not resolved).
C3_Witness ==
    /\ mode = "engine"
    /\ pc = "called"
    /\ DOMAIN results # {}
    /\ \E i, j \in Entries :
         /\ promise[i].state = "rejected"
         /\ promise[j].state = "pending"
    /\ outcome.status # "resolved"

\* C4 as claimed: if an entry's computation fails, the aggregate rejects with
\* the error of the first entry to fail, unmodified, as soon as the failure
\* has been delivered, other entries still pending or not.
C4_FirstFailedEntryWins ==
    (mode = "engine" /\ firstFailed # 0) =>
        /\ outcome.status = "rejected" => outcome.value = FailureOf(firstFailed)
        /\ (pc = "called" /\ microtasks = <<>>) => outcome.status = "rejected"

\* C4 as amended: the aggregate rejects with the first failure the engine
\* meets, unmodified, without waiting for the other entries: an exception
\* thrown while launching; otherwise the rejection of the first entry, in
\* entry order, that was already rejected when launched; otherwise the first
\* entry to reject afterwards, which is then the first entry to fail at all.
C4_FirstObservedFailureWins ==
    mode = "engine" =>
        /\ outcome.status = "rejected" =>
             /\ thrown # None \/ observed # <<>>
             /\ outcome.value = IF thrown # None THEN thrown
                                ELSE FailureOf(Head(observed).entry)
        /\ (pc = "called" /\ microtasks = <<>> /\ (thrown # None \/ observed # <<>>))
             => outcome.status = "rejected"
        /\ (thrown = None /\ observed # <<>> /\ Head(observed).when = "later")
             => Head(observed).entry = firstFailed
        /\ (\A k \in 1..Len(observed) : observed[k].when = "launch") =>
             \A k \in 1..(Len(observed) - 1) : observed[k].entry < observed[k + 1].entry

\* Witness of C4: the aggregate is rejected with the error of an entry that
\* rejected after the call, while another entry has not settled.
C4_Witness ==
    /\ mode = "engine"
    /\ outcome.status = "rejected"
    /\ thrown = None
    /\ Head(observed).when = "later"
    /\ outcome.value = FailureOf(firstFailed)
    /\ \E j \in Entries : launched[j] /\ promise[j].state = "pending"

\* C5 as claimed: with a transform supplied, every pending value is awaited
\* directly and never transformed, and every other value is passed to the
\* transform exactly once and the computation it returns is awaited.
C5_EveryPlainValueTransformedOnce ==
    (mode = "engine" /\ pc = "called" /\ functionToCall.supplied) =>
        \A i \in Entries :
            IF isPromise(object[i].value)
            THEN calls[i] = 0 /\ launched[i]
            ELSE calls[i] = 1 /\ launched[i]

\* C5 as amended: the same for every entry the launch loop reaches; an
\* exception thrown while launching an entry (no transform for a plain value,
\* or the transform itself throwing) ends the loop, and the entries after it
\* are neither transformed nor awaited. No entry is transformed twice.
C5_ReachedEntriesTransformedOnce ==
    (mode = "engine" /\ pc = "called") =>
        \A i \in Entries :
            IF isPromise(object[i].value)
            THEN /\ calls[i] = 0
                 /\ launched[i] <=> Reached(i)
            ELSE /\ calls[i] = (IF Reached(i) /\ functionToCall.supplied THEN 1 ELSE 0)
                 /\ launched[i] <=> (Reached(i) /\ ~ThrowsAt(i))
                 /\ launched[i] => promise[i].state # "none"
                 /\ promise[i].state = "fulfilled" =>
                        promise[i].value = FnValue(object[i].value)

\* Witness of C5: a transform that throws on the second entry: the first
\* (plain) entry was transformed once and awaited, the third never touched.
C5_Witness ==
    /\ mode = "engine"
    /\ pc = "called"
    /\ functionToCall.supplied
    /\ Len(object) = 3
    /\ ~isPromise(object[1].value) /\ calls[1] = 1 /\ launched[1]
    /\ ThrowsAt(2)
    /\ calls[3] = 0 /\ ~launched[3]

\* A plain value is passed without a transform.
Misuse ==
    /\ ~functionToCall.supplied
    /\ \E i \in Entries : ~isPromise(object[i].value)

FirstPlain == CHOOSE i \in Entries :
    /\ ~isPromise(object[i].value)
    /\ \A j \in 1..(i - 1) : isPromise(object[j].value)

\* C6: without a transform, a value that is not a pending computation fails
\* the whole operation with Error('Invalid input'); no work is launched for
\* that entry; the entries launched before it keep their handlers, their
\* results are still recorded, and no outcome of theirs changes the failure.
C6_MissingTransformFailsFast ==
    (mode = "engine" /\ pc = "called" /\ Misuse) =>
        /\ outcome = [status |-> "rejected", value |-> InvalidInput]
        /\ \A i \in Entries : calls[i] = 0
        /\ ~launched[FirstPlain] /\ promise[FirstPlain].state = "none"
        /\ \A j \in Entries : launched[j] <=> j < FirstPlain
        /\ microtasks = <<>> =>
             \A j \in Entries :
                (launched[j] /\ promise[j].state = "fulfilled") =>
                    /\ object[j].key \in DOMAIN results
                    /\ results[object[j].key] = AwaitedValue(j)

\* Witness of C6: after the usage error, one earlier entry has had its
\* result recorded and another earlier entry has rejected and been handled.
C6_Witness ==
    /\ mode = "engine"
    /\ pc = "called"
    /\ Misuse
    /\ FirstPlain = 3
    /\ microtasks = <<>>
    /\ DOMAIN results # {}
    /\ observed # <<>> /\ Head(observed).when = "later"
    /\ outcome.value = InvalidInput

----------------------------------------------------------------------------
(* Properties of the codec *)

\* A string without unpaired surrogates.
RECURSIVE WellFormed(_)
WellFormed(chars) ==
    IF chars = <<>> THEN TRUE
    ELSE IF IsHighSurrogate(Head(chars))
    THEN Len(chars) >= 2 /\ IsLowSurrogate(chars[2]) /\ WellFormed(Tail(Tail(chars)))
    ELSE ~IsLowSurrogate(Head(chars)) /\ WellFormed(Tail(chars))

\* A key of exactly 32 bytes.
ValidKey(k) == k.type = "string" /\ Len(Utf8Encode(k.chars)) = KeyLength

WrongLengthKey(k) == ~Falsy(k) /\ ~ValidKey(k)

\* aesDecryptData(aesEncryptData(plaintext, encKey), encKey) has been
\* evaluated, with a string and a valid key.
RoundTripDone ==
    /\ mode = "codec"
    /\ cpc = "decrypted"
    /\ encrypted.kind # "promise"
    /\ blobFrom = "encrypt"
    /\ plaintext.type = "string"
    /\ ValidKey(encKey)
    /\ decKey = encKey

\* C7 as claimed: misuse is raised to the caller at the call itself, both the
\* missing transform of promiseAllRecord and the wrong-length key of the
\* codec, and a rejection of the returned promise is never a misuse error.
C7_MisuseRaisedAtTheCall ==
    /\ (mode = "engine" /\ pc = "called" /\ Misuse) => raised = InvalidInput
    /\ (mode = "engine" /\ outcome.status = "rejected") => outcome.value # InvalidInput
    /\ (mode = "codec" /\ cpc # "start" /\ encrypted.kind # "promise"
          /\ ~Falsy(plaintext) /\ WrongLengthKey(encKey))
         => encrypted.kind = "raised"

\* C7 as amended: aesEncryptData and aesDecryptData raise at the call itself,
\* the wrong-length key and the integrity failure alike; promiseAllRecord and
\* the promisified codec raise nothing at the call: every failure of theirs,
\* the missing transform ('Invalid input') and the wrong-length key included,
\* is the rejection of the promise they return, which a missing transform
\* has already rejected when the call returns.
C7_MisuseChannels ==
    /\ (mode = "engine" /\ pc = "called") =>
         /\ raised = None
         /\ Misuse => outcome = [status |-> "rejected", value |-> InvalidInput]
    /\ (mode = "codec" /\ cpc # "start" /\ ~Falsy(plaintext) /\ WrongLengthKey(encKey)) =>
         IF encrypted.kind = "promise"
         THEN /\ encrypted.raised = None
              /\ encrypted.outcome =
                    [status |-> "rejected",
                     value |-> [error |-> "ERR_CRYPTO_INVALID_KEYLEN"]]
         ELSE encrypted = Raised("ERR_CRYPTO_INVALID_KEYLEN", TRUE)
    /\ (mode = "codec" /\ cpc = "decrypted" /\ ~Falsy(blob) /\ ~Falsy(decKey)
          /\ (WrongLengthKey(decKey) \/ decKey # encKey)) =>
         IF decrypted.kind = "promise"
         THEN decrypted.raised = None /\ decrypted.outcome.status = "rejected"
         ELSE decrypted.kind = "raised"

\* Witness of C7: promiseAllRecord has returned from a call without a
\* transform for a plain second entry: nothing was raised, the promise it
\* returned is rejected with 'Invalid input'.
C7_Witness ==
    /\ mode = "engine"
    /\ pc = "called"
    /\ Misuse
    /\ FirstPlain = 2
    /\ raised = None
    /\ outcome.status = "rejected"
    /\ outcome.value = InvalidInput
    /\ microtasks # <<>>

\* C8 as claimed: for any plaintext string and any valid key,
\* aesDecryptData(aesEncryptData(p, k), k) = p.
C8_RoundTripAnyString ==
    RoundTripDone => (decrypted.kind = "returned" /\ decrypted.value = plaintext)

\* C8 as amended: the same for every non-empty plaintext without unpaired
\* surrogates. The empty string comes back as null, and an unpaired
\* surrogate comes back as U+FFFD.
C8_RoundTripWellFormed ==
    RoundTripDone =>
        /\ decrypted.kind = "returned"
        /\ (plaintext.chars # <<>> /\ WellFormed(plaintext.chars))
              => decrypted.value = plaintext
        /\ plaintext.chars = <<>> => decrypted.value = Null
        /\ plaintext.chars # <<>>
              => decrypted.value = Str(Utf8Decode(Utf8Encode(plaintext.chars)))

\* Witness of C8: U+1F600, a surrogate pair of four bytes, has come back.
C8_Witness ==
    /\ RoundTripDone
    /\ plaintext = Str(<<55357, 56832>>)
    /\ Len(Base64urlDecode(blob.chars)) = IvLength + 4 + TagLength
    /\ decrypted.value = plaintext

\* The empty string, or no string at all.
EmptyOrAbsent(x) == x \in {Str(<<>>), Undefined, Null}

\* C9: aesEncryptData and aesDecryptData return null, raise nothing and do
\* not set up the cipher when their first argument or the key is the empty
\* string or absent, whatever the other argument is.
C9_AbsenceReturnsNull ==
    mode = "codec" =>
        /\ (cpc # "start" /\ encrypted.kind # "promise"
              /\ (EmptyOrAbsent(plaintext) \/ EmptyOrAbsent(encKey)))
             => encrypted = Returned(Null, FALSE)
        /\ (cpc = "decrypted" /\ decrypted.kind # "promise"
              /\ (EmptyOrAbsent(blob) \/ EmptyOrAbsent(decKey)))
             => decrypted = Returned(Null, FALSE)

\* Witness of C9: the empty plaintext under a key of the wrong length gave
\* null, and that null under another key of the wrong length gave null.
C9_Witness ==
    /\ mode = "codec"
    /\ cpc = "decrypted"
    /\ plaintext = Str(<<>>) /\ encKey = ShortKey
    /\ encrypted = Returned(Null, FALSE)
    /\ blob = Null
    /\ decKey = WideKey /\ decrypted = Returned(Null, FALSE)

\* aesDecryptData was called with a non-empty string and a non-empty key.
DecryptDone ==
    /\ mode = "codec"
    /\ cpc = "decrypted"
    /\ decrypted.kind # "promise"
    /\ ~Falsy(blob)
    /\ ~Falsy(decKey)

\* The bytes of the ciphertext or of the tag are not those the encryption
\* produced.
CiphertextOrTagAltered ==
    /\ encrypted.kind = "returned"
    /\ ~Falsy(encrypted.value)
    /\ LET was == Base64urlDecode(encrypted.value.chars)
           is == Base64urlDecode(blob.chars)
       IN  Subarray(is, IvLength, Len(is)) # Subarray(was, IvLength, Len(was))

\* C10 as claimed: given a non-empty blob and a non-empty key, aesDecryptData
\* returns the plaintext that was encoded under that key or fails; with the
\* ciphertext or the tag altered, or another key, it fails, and it never
\* returns null or another plaintext.
C10_PlaintextOrError ==
    DecryptDone =>
        /\ decrypted.kind = "returned"
              => (decKey = encKey /\ decrypted.value = plaintext)
        /\ (CiphertextOrTagAltered \/ decKey # encKey) => decrypted.kind = "raised"

\* C10 as amended: what it returns is the plaintext as it was encoded, that
\* is with U+FFFD for every unpaired surrogate (the plaintext itself when it
\* has none), and only for the bytes the encryption produced under the same
\* key; with the ciphertext or the tag altered, or another key, it fails.
C10_EncodedPlaintextOrError ==
    DecryptDone =>
        /\ decrypted.kind = "returned" =>
             /\ decKey = encKey
             /\ encrypted.kind = "returned"
             /\ Base64urlDecode(blob.chars) = Base64urlDecode(encrypted.value.chars)
             /\ decrypted.value = Str(Utf8Decode(Utf8Encode(plaintext.chars)))
             /\ WellFormed(plaintext.chars) => decrypted.value = plaintext
        /\ (CiphertextOrTagAltered \/ decKey # encKey) => decrypted.kind = "raised"
        /\ decrypted.kind \in {"returned", "raised"}

\* Witness of C10: one bit of the tag was flipped and the decryption under
\* the right key failed the authentication.
C10_Witness ==
    /\ DecryptDone
    /\ blobFrom = "flipped"
    /\ decKey = encKey
    /\ CiphertextOrTagAltered
    /\ CiphertextOf(Base64urlDecode(blob.chars))
          = CiphertextOf(Base64urlDecode(encrypted.value.chars))
    /\ decrypted = Raised("unable to authenticate data", TRUE)

----------------------------------------------------------------------------
(* Properties of the bulk wrappers *)

\* bulkAesEncrypt was given an object whose fields are all strings, and a
\* key of 32 bytes.
BulkOfStrings ==
    /\ mode = "engine"
    /\ IsCodecClosure
    /\ ValidKey(given.key)
    /\ \A i \in 1..Len(given.object) : given.object[i].value.type = "string"

\* bulkAesDecrypt was given the mapping, and the key bulkAesEncrypt was given.
DecryptsWithSameKey ==
    /\ functionToCall.codec = "decrypt"
    /\ functionToCall.key = given.key

\* The call has returned and no reaction is left to run.
Quiescent == pc = "called" /\ microtasks = <<>>

\* C11: bulk round trip. For an object whose fields are strings and a valid
\* key k, bulkAesEncrypt resolves, and bulkAesDecrypt of its mapping under k
\* resolves with the keys of the object and, under each key, the value the
\* object has there.
C11_BulkRoundTrip ==
    BulkOfStrings =>
        /\ (functionToCall.codec = "encrypt" /\ Quiescent)
              => outcome.status = "resolved"
        /\ (DecryptsWithSameKey /\ Quiescent) =>
              /\ outcome.status = "resolved"
              /\ DOMAIN outcome.value =
                    {given.object[i].key : i \in 1..Len(given.object)}
              /\ \A i \in 1..Len(given.object) :
                    outcome.value[given.object[i].key] = given.object[i].value

\* What the codec of the closure returns or raises for the value of field i,
\* for every nonce the random source may give.
CodecOf(i) ==
    IF functionToCall.codec = "encrypt"
    THEN {aesEncryptData(object[i].value, functionToCall.key, aesIV) : aesIV \in IVs}
    ELSE {aesDecryptData(object[i].value, functionToCall.key)}

\* bulkAesEncrypt or bulkAesDecrypt has resolved.
BulkResolved ==
    /\ mode = "engine"
    /\ IsCodecClosure
    /\ outcome.status = "resolved"

\* C12 as claimed: whenever bulkAesEncrypt (bulkAesDecrypt) resolves, the value
\* under every key is what aesEncryptData (aesDecryptData) returns for that
\* field's input value under the given key.
C12_EveryFieldEncoded ==
    BulkResolved =>
        \A i \in Entries :
            \E r \in CodecOf(i) :
                r.kind = "returned" /\ outcome.value[object[i].key] = r.value

\* C12 as amended: the same for every field whose value isPromise does not
\* accept, and such a field's non-empty input value is not in the result; a
\* field whose value is a promise is awaited, the codec is not applied to it
\* and the value it settles with is in the result as it is.
C12_EveryPlainFieldEncoded ==
    BulkResolved =>
        /\ DOMAIN outcome.value = KeysOf
        /\ \A i \in Entries :
              IF isPromise(object[i].value)
              THEN /\ calls[i] = 0
                   /\ outcome.value[object[i].key] = AwaitedValue(i)
              ELSE /\ calls[i] = 1
                   /\ \E r \in CodecOf(i) :
                        r.kind = "returned" /\ outcome.value[object[i].key] = r.value
                   /\ ~Falsy(object[i].value)
                        => outcome.value[object[i].key] # object[i].value

\* Witness of C12: bulkAesEncrypt has resolved for an object with the field
\* 'A', an empty field and a promise: a blob of 12 + 1 + 16 bytes, null, and
\* the promise's value.
C12_Witness ==
    /\ BulkResolved
    /\ functionToCall.codec = "encrypt"
    /\ Len(object) = 3
    /\ object[1].value = Str(<<65>>)
    /\ object[2].value = Str(<<>>)
    /\ isPromise(object[3].value)
    /\ Len(Base64urlDecode(outcome.value["a"].chars)) = IvLength + 1 + TagLength
    /\ outcome.value["b"] = Null
    /\ outcome.value["c"] = AwaitedValue(3)

----------------------------------------------------------------------------
(* Properties of promiseAllRecord: settling, launching, counting *)

AllSettledSuccessfully ==
    /\ mode = "engine"
    /\ pc = "called"
    /\ thrown = None
    /\ \A i \in Entries : launched[i] /\ promise[i].state = "fulfilled"

\* C14: when every entry's computation has settled successfully, the promise
\* promiseAllRecord returns resolves: it is resolved as soon as the reactions
\* to the settlements have run, whatever the order of the settlements.
C14_ResolvesWhenAllSettled ==
    (AllSettledSuccessfully /\ microtasks = <<>>) => outcome.status = "resolved"

\* The computation of entry i was launched: the promise it is was given its
\* handlers, or the transform was called with its value.
Started(i) == IF isPromise(object[i].value) THEN launched[i] ELSE calls[i] = 1

\* No result is recorded before the call has returned.
NothingRecordedBeforeReturn ==
    pc = "idle" => (DOMAIN results = {} /\ completed = 0 /\ order = <<>>)

\* C15 as claimed: with a transform supplied, the computation of every entry
\* is launched during the call, before any result is recorded, whatever the
\* other entries' computations do: succeed, reject, or throw.
C15_EveryEntryLaunched ==
    (mode = "engine" /\ ~IsCodecClosure /\ functionToCall.supplied) =>
        /\ NothingRecordedBeforeReturn
        /\ pc = "called" => \A i \in Entries : Started(i)

\* C15 as amended: during the call, before any result is recorded, the
\* computation of every entry is launched up to and including the first
\* entry on which the transform throws; the entries after that one are never
\* launched. Nothing else decides it: not whether other entries have
\* succeeded, are rejected or are pending, nor what later entries do.
C15_LaunchedUnlessEarlierThrow ==
    (mode = "engine" /\ ~IsCodecClosure /\ functionToCall.supplied) =>
        /\ NothingRecordedBeforeReturn
        /\ pc = "idle" => \A i \in Entries : ~launched[i] /\ calls[i] = 0
        /\ pc = "called" =>
              \A i \in Entries :
                  /\ Started(i) <=> (\A j \in 1..(i - 1) : ~ThrowsAt(j))
                  /\ launched[i] <=> (\A j \in 1..i : ~ThrowsAt(j))

\* Witness of C15: the call has returned and nothing is recorded yet; the
\* first entry is a rejected promise, the transform returned a rejected
\* promise for the second, and the third was launched all the same.
C15_Witness ==
    /\ mode = "engine"
    /\ pc = "called"
    /\ functionToCall.supplied
    /\ Len(object) = 3
    /\ isPromise(object[1].value) /\ promise[1].state = "rejected"
    /\ ~isPromise(object[2].value) /\ promise[2].state = "rejected"
    /\ ~isPromise(object[3].value) /\ calls[3] = 1 /\ launched[3]
    /\ DOMAIN results = {}
    /\ outcome.status = "pending"

\* No entry is in `order` twice.
IncrementedAtMostOnce ==
    \A m, n \in 1..Len(order) : order[m] = order[n] => m = n

====
